---- MODULE Spec2Model ----
(***************************************************************************)
(* Model of src/src/transcript.py: the TranscriptLine / Transcript data    *)
(* model, the append operation that maintains the derived aggregates, the  *)
(* predicate driven merge and its specialisations, the speaker remapping   *)
(* operations, the statistics accessors, and parsing / rendering of the    *)
(* textual format.                                                         *)
(*                                                                         *)
(* Representation.  A Python str is a sequence of one-character strings.   *)
(* A timedelta is an integer number of milliseconds (every time the parser *)
(* produces is a whole number of milliseconds, and sums and differences of *)
(* such values are too); the quotient of a timedelta by an int carries the *)
(* extra microseconds in a second field.  A raised exception is the name   *)
(* of its class in the field exc of the result of a call.                  *)
(***************************************************************************)
EXTENDS Integers, Sequences, FiniteSets, TLC

VARIABLES
    doc,    \* <<text>> when the transcript was built by parse_transcript(text), <<>> otherwise
    src,    \* the Transcript the calls are made on
    pc,     \* "init": fresh Transcript(); "building": appends under way; "ready": parsed; "called": a call was made; "failed": the parse raised
    call,   \* the last call made on src
    ret     \* what that call returned or raised

vars == <<doc, src, pc, call, ret>>

\* ---------------------------------------------------------------- bounds
MaxLines == 3          \* longest line list built by direct appends
MaxBlocks == 2         \* most blocks in a generated input document

\* ------------------------------------------------------- integer helpers
Abs(x) == IF x < 0 THEN -x ELSE x

\* ------------------------------------------------------------ TranscriptLine
\* TranscriptLine.create: a line from raw field values
create(start_time, end_time, speaker, text) ==
    [start_time |-> start_time, end_time |-> end_time,
     speaker |-> speaker, text |-> text]

get_duration(line) == line.end_time - line.start_time

\* a variant of __sub__ that counts an overlap as no silence
sub_clamped(self, other) ==
    IF self.start_time - other.end_time < 0 THEN 0 ELSE self.start_time - other.end_time

\* TranscriptLine.__sub__: gap between the end of other and the start of self
sub(self, other) == self.start_time - other.end_time

\* TranscriptLine.__eq__
line_eq(a, b) ==
    /\ a.start_time = b.start_time
    /\ a.end_time = b.end_time
    /\ a.speaker = b.speaker
    /\ a.text = b.text

\* ---------------------------------------------------------------- Transcript
\* Transcript.__init__
NewTranscript ==
    [lines |-> <<>>, speakers |-> {}, silence_intervals |-> <<>>,
     total_speaking_time |-> 0, total_silence |-> 0]

\* a variant of __add_item that folds the duration in only inside the branch
\* taken when the transcript already holds a line
add_item_duration_in_branch(self, item) ==
    LET n == Len(self.lines)
        silence == sub(item, self.lines[n])
    IN  [lines |-> Append(self.lines, item),
         speakers |-> self.speakers \cup {item.speaker},
         silence_intervals |-> IF n > 0 THEN Append(self.silence_intervals, silence)
                                        ELSE self.silence_intervals,
         total_speaking_time |-> IF n > 0 THEN self.total_speaking_time + get_duration(item)
                                          ELSE self.total_speaking_time,
         total_silence |-> IF n > 0 THEN self.total_silence + silence
                                    ELSE self.total_silence]

\* Transcript.__add_item
add_item(self, item) ==
    LET n == Len(self.lines)
        silence == sub(item, self.lines[n])
    IN  [lines |-> Append(self.lines, item),
         speakers |-> self.speakers \cup {item.speaker},
         silence_intervals |-> IF n > 0 THEN Append(self.silence_intervals, silence)
                                        ELSE self.silence_intervals,
         total_speaking_time |-> self.total_speaking_time + get_duration(item),
         total_silence |-> IF n > 0 THEN self.total_silence + silence
                                    ELSE self.total_silence]

num_lines(self) == Len(self.lines)

\* Transcript.__eq__
transcript_eq(self, other) ==
    /\ num_lines(self) = num_lines(other)
    /\ \A i \in 1..num_lines(self) : line_eq(self.lines[i], other.lines[i])

\* ------------------------------------------------------------- call results
NoCall == [name |-> "none", pred |-> <<>>, interval |-> <<>>, ignore_speakers |-> FALSE,
           names |-> <<>>, speaker_map |-> <<>>, answer |-> "", text |-> <<>>]

Zero == [ms |-> 0, us |-> 0]

NoRet == [exc |-> "none", kind |-> "none", transcript |-> NewTranscript,
          value |-> Zero, text |-> <<>>]

Raise(e) == [NoRet EXCEPT !.exc = e]
RetTranscript(t) == [NoRet EXCEPT !.kind = "transcript", !.transcript = t]
RetValue(v) == [NoRet EXCEPT !.kind = "timedelta", !.value = v]
RetText(s) == [NoRet EXCEPT !.kind = "str", !.text = s]

\* ----------------------------------------------------------- timedelta / int
\* datetime._divide_and_round on a non-negative remainder r and a divisor n > 0:
\* nearest integer to r * 1000 / n, ties to the even one
divide_and_round(r, n) ==
    LET q == (r * 1000) \div n
        rem2 == 2 * ((r * 1000) % n)
    IN  IF rem2 > n \/ (rem2 = n /\ q % 2 = 1) THEN q + 1 ELSE q

\* timedelta.__truediv__(int) for a divisor n > 0: whole milliseconds and the
\* microseconds left over, normalised to 0..999
td_div_pos(td, n) ==
    LET q == td \div n
        usec == divide_and_round(td % n, n)
    IN  IF usec = 1000 THEN [ms |-> q + 1, us |-> 0] ELSE [ms |-> q, us |-> usec]

\* timedelta / int; a / b = (-a) / (-b) for a negative divisor; the caller
\* handles the ZeroDivisionError of n = 0
td_div(td, n) == IF n < 0 THEN td_div_pos(-td, -n) ELSE td_div_pos(td, n)

\* largest r in lo..hi with r * r <= x (float ** 0.5, to the millisecond)
RECURSIVE isqrt_between(_, _, _)
isqrt_between(x, lo, hi) ==
    IF lo >= hi THEN lo
    ELSE LET mid == (lo + hi + 1) \div 2
         IN  IF mid * mid <= x THEN isqrt_between(x, mid, hi)
                               ELSE isqrt_between(x, lo, mid - 1)

isqrt(x) == isqrt_between(x, 0, 46340)

\* ------------------------------------------------------------------ sorted()
\* sorted() is stable: an item goes after every item that is not greater
RECURSIVE insert_sorted(_, _)
insert_sorted(x, s) ==
    IF s = <<>> THEN <<x>>
    ELSE IF x < Head(s) THEN <<x>> \o s
    ELSE <<Head(s)>> \o insert_sorted(x, Tail(s))

RECURSIVE sorted(_)
sorted(s) ==
    IF s = <<>> THEN <<>>
    ELSE insert_sorted(s[Len(s)], sorted(SubSeq(s, 1, Len(s) - 1)))

\* sorted(lines, key=lambda x: x.get_duration())
RECURSIVE insert_by_duration(_, _)
insert_by_duration(x, s) ==
    IF s = <<>> THEN <<x>>
    ELSE IF get_duration(x) < get_duration(Head(s)) THEN <<x>> \o s
    ELSE <<Head(s)>> \o insert_by_duration(x, Tail(s))

RECURSIVE sorted_by_duration(_)
sorted_by_duration(s) ==
    IF s = <<>> THEN <<>>
    ELSE insert_by_duration(s[Len(s)], sorted_by_duration(SubSeq(s, 1, Len(s) - 1)))

\* ------------------------------------------------------------ statistics
\* Transcript.get_silence_intervals
get_silence_intervals(self, sort) ==
    IF sort THEN sorted(self.silence_intervals) ELSE self.silence_intervals

\* Transcript.total_time: self.__lines[-1].get_end_time()
total_time(self) ==
    IF self.lines = <<>> THEN Raise("IndexError")
    ELSE RetValue([ms |-> self.lines[Len(self.lines)].end_time, us |-> 0])

total_speaking_time(self) == RetValue([ms |-> self.total_speaking_time, us |-> 0])

total_silence(self) == RetValue([ms |-> self.total_silence, us |-> 0])

\* Transcript.avg_silence: total_silence / (len(lines) - 1)
avg_silence(self) ==
    IF Len(self.lines) - 1 = 0 THEN Raise("ZeroDivisionError")
    ELSE RetValue(td_div(self.total_silence, Len(self.lines) - 1))

\* a variant of median_silence that indexes at (len - 1) // 2
median_silence_lower(self) ==
    LET silence_intervals == get_silence_intervals(self, TRUE)
        n == Len(silence_intervals)
    IN  IF n = 0 THEN Raise("IndexError")
        ELSE RetValue([ms |-> silence_intervals[(n - 1) \div 2 + 1], us |-> 0])

\* Transcript.median_silence: sorted gaps at 0-based index len // 2
median_silence(self) ==
    LET silence_intervals == get_silence_intervals(self, TRUE)
        n == Len(silence_intervals)
    IN  IF n \div 2 >= n THEN Raise("IndexError")
        ELSE RetValue([ms |-> silence_intervals[n \div 2 + 1], us |-> 0])

\* Transcript.avg_speaking_time: total_speaking_time / len(lines)
avg_speaking_time(self) ==
    IF Len(self.lines) = 0 THEN Raise("ZeroDivisionError")
    ELSE RetValue(td_div(self.total_speaking_time, Len(self.lines)))

\* Transcript.median_speaking_time
median_speaking_time(self) ==
    LET by_duration == sorted_by_duration(self.lines)
        n == Len(self.lines)
    IN  IF n \div 2 >= n THEN Raise("IndexError")
        ELSE RetValue([ms |-> get_duration(by_duration[n \div 2 + 1]), us |-> 0])

\* sum of the squared deviations of the gaps from the mean (to the millisecond)
RECURSIVE squared_deviations(_, _)
squared_deviations(intervals, mean) ==
    IF intervals = <<>> THEN 0
    ELSE (Head(intervals) - mean) * (Head(intervals) - mean)
         + squared_deviations(Tail(intervals), mean)

\* Transcript.std_silence; the variance is divided by len(lines) - 1, which is
\* -1 on an empty transcript (0 / -1 is -0.0, whose square root is 0.0)
std_silence(self) ==
    LET mean == avg_silence(self)
        n == Len(self.lines) - 1
        total_seconds == squared_deviations(get_silence_intervals(self, FALSE), mean.value.ms)
        variance == IF n < 0 THEN -(total_seconds \div (-n)) ELSE total_seconds \div n
    IN  IF mean.exc # "none" THEN mean
        ELSE IF variance < 0 THEN Raise("TypeError")
        ELSE RetValue([ms |-> isqrt(variance), us |-> 0])

\* ------------------------------------------------------------ predicates
\* the callables handed to merge: the two static helpers of Transcript, and
\* caller supplied ones (constant, or answering its k-th call from a script)
same_speaker_pred == [kind |-> "same_speaker", interval |-> 0, script |-> <<>>]
longer_silence_pred(interval) == [kind |-> "longer_silence", interval |-> interval, script |-> <<>>]
always_false_pred == [kind |-> "always_false", interval |-> 0, script |-> <<>>]
always_true_pred == [kind |-> "always_true", interval |-> 0, script |-> <<>>]
script_pred(script) == [kind |-> "script", interval |-> 0, script |-> script]

\* Transcript.__same_speaker
same_speaker(line1, line2) == line1.speaker = line2.speaker

\* Transcript.__longer_silence
longer_silence(line1, line2, interval) == sub(line2, line1) >= interval

\* the k-th call merge makes of its predicate
apply_pred(p, line1, line2, k) ==
    CASE p.kind = "same_speaker" -> same_speaker(line1, line2)
      [] p.kind = "longer_silence" -> longer_silence(line1, line2, p.interval)
      [] p.kind = "always_true" -> TRUE
      [] p.kind = "always_false" -> FALSE
      [] OTHER -> IF k <= Len(p.script) THEN p.script[k] ELSE FALSE

\* truth value of a function object: it defines neither __bool__ nor __len__
truthy(callable) == TRUE

\* Python's `a and b` on two objects: a when a is falsy, b otherwise
py_and(a, b) == IF truthy(a) THEN b ELSE a

\* ------------------------------------------------------- transformations
\* Transcript.map_speakers
RECURSIVE map_loop(_, _, _)
map_loop(mapped, lines, speaker_map) ==
    IF lines = <<>> THEN mapped
    ELSE LET line == Head(lines)
             item == IF line.speaker \in DOMAIN speaker_map
                     THEN create(line.start_time, line.end_time,
                                 speaker_map[line.speaker], line.text)
                     ELSE line
         IN  map_loop(add_item(mapped, item), Tail(lines), speaker_map)

map_speakers(self, speaker_map) ==
    RetTranscript(map_loop(NewTranscript, self.lines, speaker_map))

\* Transcript.alternate_speakers: i % len(speaker_names) raises in the first
\* iteration when the list of names is empty
RECURSIVE alternate_loop(_, _, _, _)
alternate_loop(alternated, lines, i, speaker_names) ==
    IF i >= Len(lines) THEN alternated
    ELSE LET line == lines[i + 1]
         IN  alternate_loop(
                 add_item(alternated,
                          create(line.start_time, line.end_time,
                                 speaker_names[(i % Len(speaker_names)) + 1], line.text)),
                 lines, i + 1, speaker_names)

alternate_speakers(self, speaker_names) ==
    IF Len(self.lines) > 0 /\ Len(speaker_names) = 0 THEN Raise("ZeroDivisionError")
    ELSE RetTranscript(alternate_loop(NewTranscript, self.lines, 0, speaker_names))

\* the loop of Transcript.merge; k counts the calls of the predicate
RECURSIVE merge_loop(_, _, _, _, _)
merge_loop(merged, next_merged_line, rest, merge_predicate, k) ==
    IF rest = <<>> THEN add_item(merged, next_merged_line)
    ELSE LET curr_line == Head(rest)
         IN  IF apply_pred(merge_predicate, next_merged_line, curr_line, k)
             THEN merge_loop(merged,
                             create(next_merged_line.start_time, curr_line.end_time,
                                    next_merged_line.speaker,
                                    next_merged_line.text \o <<" ">> \o curr_line.text),
                             Tail(rest), merge_predicate, k + 1)
             ELSE merge_loop(add_item(merged, next_merged_line), curr_line,
                             Tail(rest), merge_predicate, k + 1)

\* a variant of merge whose loop starts at self.__lines[2:]
merge_skips_second(self, merge_predicate) ==
    IF self.lines = <<>> THEN Raise("IndexError")
    ELSE RetTranscript(merge_loop(NewTranscript, Head(self.lines),
                                  IF Len(self.lines) >= 2 THEN Tail(Tail(self.lines))
                                                          ELSE <<>>,
                                  merge_predicate, 1))

\* a variant of merge whose loop runs over self.__lines, the first line included
merge_revisits_first(self, merge_predicate) ==
    IF self.lines = <<>> THEN Raise("IndexError")
    ELSE RetTranscript(merge_loop(NewTranscript, Head(self.lines), self.lines,
                                  merge_predicate, 1))

\* Transcript.merge: self.__lines[0] raises on an empty transcript
merge(self, merge_predicate) ==
    IF self.lines = <<>> THEN Raise("IndexError")
    ELSE RetTranscript(merge_loop(NewTranscript, Head(self.lines), Tail(self.lines),
                                  merge_predicate, 1))

\* Transcript.merge_by_speaker; answer is what input() returned
merge_by_speaker(self, answer) ==
    IF Cardinality(self.speakers) < 2 /\ answer = "n" THEN RetTranscript(self)
    ELSE merge(self, same_speaker_pred)

\* Transcript.merge_by_silence_interval; interval is <<>> for None
merge_by_silence_interval(self, interval, ignore_speakers) ==
    LET median == median_silence(self)
        threshold == IF interval = <<>> THEN median.value.ms ELSE interval[1]
        pred == longer_silence_pred(threshold)
        pred2 == IF ~ignore_speakers THEN py_and(pred, same_speaker_pred) ELSE pred
    IN  IF interval = <<>> /\ median.exc # "none" THEN median
        ELSE merge(self, pred2)

\* -------------------------------------------------------------- str helpers
Digits == <<"0", "1", "2", "3", "4", "5", "6", "7", "8", "9">>
IsDigit(c) == \E i \in 1..10 : Digits[i] = c
DigitVal(c) == (CHOOSE i \in 1..10 : Digits[i] = c) - 1

\* characters str.strip() removes
Whitespace == {" ", "\n", "\t", "\r"}

RECURSIVE lstrip(_)
lstrip(s) == IF s # <<>> /\ Head(s) \in Whitespace THEN lstrip(Tail(s)) ELSE s

RECURSIVE rstrip(_)
rstrip(s) ==
    IF s # <<>> /\ s[Len(s)] \in Whitespace THEN rstrip(SubSeq(s, 1, Len(s) - 1)) ELSE s

strip(s) == rstrip(lstrip(s))

\* s[i - 1 : j] of Python: the indices are clamped to the string
slice(s, i, j) ==
    LET lo == IF i < 1 THEN 1 ELSE i
        hi == IF j > Len(s) THEN Len(s) ELSE j
    IN  IF lo > hi THEN <<>> ELSE SubSeq(s, lo, hi)

\* str.split(sep): the pieces between the occurrences of sep, found left to right
RECURSIVE split_from(_, _, _)
split_from(s, sep, i) ==
    IF i + Len(sep) - 1 > Len(s) THEN <<s>>
    ELSE IF SubSeq(s, i, i + Len(sep) - 1) = sep
         THEN <<SubSeq(s, 1, i - 1)>> \o split_from(SubSeq(s, i + Len(sep), Len(s)), sep, 1)
         ELSE split_from(s, sep, i + 1)

split(s, sep) == split_from(s, sep, 1)

\* sep.join(parts)
RECURSIVE join(_, _)
join(sep, parts) ==
    IF parts = <<>> THEN <<>>
    ELSE IF Len(parts) = 1 THEN parts[1]
    ELSE parts[1] \o sep \o join(sep, Tail(parts))

\* str(n) of an int
RECURSIVE dec_digits(_)
dec_digits(n) ==
    IF n < 10 THEN <<Digits[n + 1]>> ELSE dec_digits(n \div 10) \o <<Digits[(n % 10) + 1]>>

int_str(n) == IF n < 0 THEN <<"-">> \o dec_digits(-n) ELSE dec_digits(n)

\* the digits of n left padded with zeros to the given width
RECURSIVE zero_pad(_, _)
zero_pad(s, width) == IF Len(s) >= width THEN s ELSE zero_pad(<<"0">> \o s, width)

\* int(s) succeeds on a non-empty run of decimal digits
is_int_literal(s) == s # <<>> /\ \A i \in 1..Len(s) : IsDigit(s[i])

RECURSIVE int_of(_)
int_of(s) == IF s = <<>> THEN 0 ELSE 10 * int_of(SubSeq(s, 1, Len(s) - 1)) + DigitVal(s[Len(s)])

\* ------------------------------------------------------- parsing one block
NL == <<"\n">>
BlockSep == <<"\n", "\n">>
Arrow == <<" ", "-", "-", ">", " ">>
Separator == <<":", " ">>
Header == <<"W", "E", "B", "V", "T", "T">>

\* [0-9]{2}:[0-9]{2}:[0-9]{2}\.[0-9]{3} at s[i .. i + 11]
time_pattern(s, i) ==
    /\ i + 11 <= Len(s)
    /\ \A k \in {0, 1, 3, 4, 6, 7, 9, 10, 11} : IsDigit(s[i + k])
    /\ s[i + 2] = ":" /\ s[i + 5] = ":" /\ s[i + 8] = "."

\* (?P<line_num>[1-9][0-9]*): the index after the longest run of digits from s[1]
RECURSIVE digits_end(_, _)
digits_end(s, i) == IF i <= Len(s) /\ IsDigit(s[i]) THEN digits_end(s, i + 1) ELSE i

\* (?P<speaker>.+): (?P<text>.+)$ on the third line, greedy: the speaker is the
\* longest prefix that is followed by the separator and at least one character;
\* 0 when no such prefix exists
RECURSIVE speaker_end(_, _)
speaker_end(third, k) ==
    IF k < 1 THEN 0
    ELSE IF slice(third, k + 1, k + 2) = Separator /\ Len(third) - (k + 2) >= 1 THEN k
    ELSE speaker_end(third, k - 1)

\* datetime.strptime(time, "%H:%M:%S.%f"): the directives accept hours 00..23,
\* minutes 00..59, seconds 00..61, and datetime() then rejects seconds above 59
strptime_ok(time) ==
    LET hour == int_of(slice(time, 1, 2))
        minute == int_of(slice(time, 4, 5))
        second == int_of(slice(time, 7, 8))
    IN  /\ hour <= 23 /\ minute <= 59 /\ second <= 61
        /\ second <= 59

\* TranscriptLine.__parse_time: the timedelta of a time that strptime accepts;
\* %f pads the three digits on the right to microseconds
parse_time(time) ==
    LET hour == int_of(slice(time, 1, 2))
        minute == int_of(slice(time, 4, 5))
        second == int_of(slice(time, 7, 8))
        microsecond == int_of(slice(time, 10, 12)) * 1000
    IN  ((hour * 60 + minute) * 60 + second) * 1000 + microsecond \div 1000

\* TranscriptLine.parse_line: [exc, line]
parse_line(line) ==
    LET p == digits_end(line, 1)
        third == slice(line, p + 31, Len(line))
        k == speaker_end(third, Len(third) - 3)
        matches ==
            /\ p > 1 /\ line[1] # "0"
            /\ slice(line, p, p) = NL
            /\ time_pattern(line, p + 1)
            /\ slice(line, p + 13, p + 17) = Arrow
            /\ time_pattern(line, p + 18)
            /\ slice(line, p + 30, p + 30) = NL
            /\ \A i \in 1..Len(third) : third[i] # "\n"
            /\ k >= 1
        start_text == slice(line, p + 1, p + 12)
        end_text == slice(line, p + 18, p + 29)
    IN  IF ~matches THEN [exc |-> "ValueError", line |-> create(0, 0, <<>>, <<>>)]
        ELSE IF ~strptime_ok(start_text) \/ ~strptime_ok(end_text)
        THEN [exc |-> "ValueError", line |-> create(0, 0, <<>>, <<>>)]
        ELSE [exc |-> "none",
              line |-> create(parse_time(start_text), parse_time(end_text),
                              slice(third, 1, k), slice(third, k + 3, Len(third)))]

\* the loop of Transcript.parse_transcript: the first block that fails aborts
RECURSIVE parse_loop(_, _)
parse_loop(obj, blocks) ==
    IF blocks = <<>> THEN RetTranscript(obj)
    ELSE LET r == parse_line(Head(blocks))
         IN  IF r.exc # "none" THEN Raise(r.exc)
             ELSE parse_loop(add_item(obj, r.line), Tail(blocks))

\* Transcript.parse_transcript on the text of the file
parse_transcript(text) ==
    LET lines == split(strip(text), BlockSep)
    IN  parse_loop(NewTranscript, IF lines[1] = Header THEN Tail(lines) ELSE lines)

\* ------------------------------------------------------------- rendering
DayMs == 24 * 60 * 60 * 1000

\* timedelta.__str__: [D day[s], ]H:MM:SS[.ffffff]
timedelta_str(td) ==
    LET days == td \div DayMs
        rest == td % DayMs
        seconds == rest \div 1000
        microseconds == (rest % 1000) * 1000
        hh == seconds \div 3600
        mm == (seconds \div 60) % 60
        ss == seconds % 60
        hms == int_str(hh) \o <<":">> \o zero_pad(int_str(mm), 2)
               \o <<":">> \o zero_pad(int_str(ss), 2)
        plural == IF Abs(days) # 1 THEN <<"s">> ELSE <<>>
        prefix == IF days # 0
                  THEN int_str(days) \o <<" ", "d", "a", "y">> \o plural \o <<",", " ">>
                  ELSE <<>>
        fraction == IF microseconds # 0
                    THEN <<".">> \o zero_pad(int_str(microseconds), 6)
                    ELSE <<>>
    IN  prefix \o hms \o fraction

\* format(float(s), '06.3f') of "SS" or "SS.ffffff": seconds to three decimals,
\* zero padded to six characters
format_seconds(s) ==
    LET parts == split(s, <<".">>)
        whole == int_of(parts[1])
        micro == IF Len(parts) > 1 THEN int_of(parts[2]) ELSE 0
        milli == (micro + 500) \div 1000
        secs == IF milli = 1000 THEN whole + 1 ELSE whole
        frac == IF milli = 1000 THEN 0 ELSE milli
    IN  zero_pad(int_str(secs), 2) \o <<".">> \o zero_pad(int_str(frac), 3)

\* the rounded_start / rounded_end computation of TranscriptLine.__str__:
\* [exc, text]; int() raises on the "D day, H" field of a time outside one day
format_time(td) ==
    LET fields == split(timedelta_str(td), <<":">>)
        n == Len(fields)
    IN  IF \E i \in 1..(n - 1) : ~is_int_literal(fields[i])
        THEN [exc |-> "ValueError", text |-> <<>>]
        ELSE [exc |-> "none",
              text |-> join(<<":">>,
                            [i \in 1..n |-> IF i < n
                                            THEN zero_pad(int_str(int_of(fields[i])), 2)
                                            ELSE format_seconds(fields[i])])]

\* TranscriptLine.__str__: [exc, text]
line_str(self) ==
    LET rounded_start == format_time(self.start_time)
        rounded_end == format_time(self.end_time)
    IN  IF rounded_start.exc # "none" THEN rounded_start
        ELSE IF rounded_end.exc # "none" THEN rounded_end
        ELSE [exc |-> "none",
              text |-> rounded_start.text \o Arrow \o rounded_end.text \o NL
                       \o self.speaker \o Separator \o self.text]

\* Transcript.__str__
transcript_str(self) ==
    LET n == Len(self.lines)
        rendered == [i \in 1..n |-> line_str(self.lines[i])]
    IN  IF \E i \in 1..n : rendered[i].exc # "none" THEN Raise("ValueError")
        ELSE RetText(join(BlockSep, [i \in 1..n |-> int_str(i) \o NL \o rendered[i].text]))

\* --------------------------------------------------------------- inputs
Speakers == { <<"A">>, <<"B">> }
Texts == { <<"h">> }
\* start/end pairs: abutting, separated, overlapping, empty and reversed spans
Spans == { <<0, 1000>>, <<1000, 2500>>, <<2500, 2500>>, <<0, 2500>>, <<2500, 1000>> }
RawLines == { create(sp[1], sp[2], s, t) : sp \in Spans, s \in Speakers, t \in Texts }

\* predicates a caller hands to merge
Preds ==
    {always_false_pred, always_true_pred, same_speaker_pred}
    \cup { script_pred(d) : d \in [1..(MaxLines - 1) -> BOOLEAN] }

\* thresholds for merge_by_silence_interval; <<>> is None
Intervals == { <<>>, <<0>>, <<1500>> }

NameLists == { <<>>, << <<"X">> >>, << <<"X">>, <<"Y">> >> }

SpeakerMaps ==
    { [s \in {} |-> <<>>],
      [s \in { <<"A">> } |-> <<"C">>],
      [s \in Speakers |-> IF s = <<"A">> THEN <<"B">> ELSE <<"A">>] }

\* texts of times, as they stand in a file
T_00_00_00_000 == <<"0","0",":","0","0",":","0","0",".","0","0","0">>
T_00_00_01_000 == <<"0","0",":","0","0",":","0","1",".","0","0","0">>
T_00_00_02_500 == <<"0","0",":","0","0",":","0","2",".","5","0","0">>
T_00_00_60_000 == <<"0","0",":","0","0",":","6","0",".","0","0","0">>
T_24_00_00_000 == <<"2","4",":","0","0",":","0","0",".","0","0","0">>
T_23_59_59_999 == <<"2","3",":","5","9",":","5","9",".","9","9","9">>
T_10_00_00_000 == <<"1","0",":","0","0",":","0","0",".","0","0","0">>
T_01_02_03_004 == <<"0","1",":","0","2",":","0","3",".","0","0","4">>
T_09_08_07_060 == <<"0","9",":","0","8",":","0","7",".","0","6","0">>

block(num, start, end, third) == num \o NL \o start \o Arrow \o end \o NL \o third

\* blocks the grammar accepts
GoodBlocks ==
    { block(<<"1">>, T_00_00_00_000, T_00_00_01_000, <<"A", ":", " ", "h">>),
      block(<<"2">>, T_00_00_01_000, T_00_00_02_500, <<"B", ":", " ", "h", ":", " ", "i">>),
      block(<<"1", "0">>, T_00_00_02_500, T_00_00_01_000, <<"A", ":", " ", "h", " ">>) }

\* blocks it rejects: line number 0, no separator, a fourth line, seconds and
\* hours out of range
BadBlocks ==
    { block(<<"0">>, T_00_00_00_000, T_00_00_01_000, <<"A", ":", " ", "h">>),
      block(<<"3">>, T_00_00_00_000, T_00_00_01_000, <<"A", "h">>),
      block(<<"3">>, T_00_00_00_000, T_00_00_01_000, <<"A", ":", " ", "h", "\n", "x">>),
      block(<<"3">>, T_00_00_00_000, T_00_00_60_000, <<"A", ":", " ", "h">>),
      block(<<"3">>, T_24_00_00_000, T_00_00_01_000, <<"A", ":", " ", "h">>) }

Blocks == GoodBlocks \cup BadBlocks

BlockSeqs == UNION { [1..n -> Blocks] : n \in 0..MaxBlocks }

\* a document: the optional header block, the blocks, an optional final newline
document(header, blocks, newline) ==
    join(BlockSep, (IF header THEN <<Header>> ELSE <<>>) \o blocks)
    \o (IF newline THEN NL ELSE <<>>)

\* a document over the whole range of the clock
LongDoc ==
    document(TRUE,
             << block(<<"7">>, T_23_59_59_999, T_10_00_00_000, <<"A", ":", " ", "h">>),
                block(<<"1", "2">>, T_01_02_03_004, T_09_08_07_060,
                      <<"B", ":", " ", "h", ":", " ", "i">>) >>,
             TRUE)

Docs ==
    { document(h, bs, nl) : h \in BOOLEAN, bs \in BlockSeqs, nl \in BOOLEAN }
    \cup {LongDoc}

\* ------------------------------------------------------------------ state
Init ==
    /\ doc = <<>>
    /\ src = NewTranscript
    /\ pc = "init"
    /\ call = NoCall
    /\ ret = NoRet

\* The calls below leave the transcript they are made on as it is, so a
\* behaviour makes one of them on the transcript it has constructed.
Callable == pc \in {"init", "building", "ready"}

\* one internal append on the transcript under construction
AddItem ==
    /\ pc \in {"init", "building"}
    /\ num_lines(src) < MaxLines
    /\ \E item \in RawLines : src' = add_item(src, item)
    /\ pc' = "building"
    /\ UNCHANGED <<doc, call, ret>>

\* Transcript.parse_transcript(path) on a file holding text
ParseTranscript ==
    /\ pc = "init"
    /\ \E text \in Docs :
          LET r == parse_transcript(text)
          IN  /\ doc' = <<text>>
              /\ call' = [NoCall EXCEPT !.name = "parse_transcript", !.text = text]
              /\ ret' = r
              /\ src' = IF r.exc = "none" THEN r.transcript ELSE src
              /\ pc' = IF r.exc = "none" THEN "ready" ELSE "failed"

\* transcript.merge(predicate)
Merge ==
    /\ Callable
    /\ \E p \in Preds :
          /\ call' = [NoCall EXCEPT !.name = "merge", !.pred = <<p>>]
          /\ ret' = merge(src, p)
    /\ pc' = "called"
    /\ UNCHANGED <<doc, src>>

\* transcript.merge_by_speaker(), with the answer typed at its prompt
MergeBySpeaker ==
    /\ Callable
    /\ \E answer \in {"n", "y"} :
          /\ call' = [NoCall EXCEPT !.name = "merge_by_speaker", !.answer = answer]
          /\ ret' = merge_by_speaker(src, answer)
    /\ pc' = "called"
    /\ UNCHANGED <<doc, src>>

\* transcript.merge_by_silence_interval(interval, ignore_speakers)
MergeBySilenceInterval ==
    /\ Callable
    /\ \E interval \in Intervals, ignore_speakers \in BOOLEAN :
          /\ call' = [NoCall EXCEPT !.name = "merge_by_silence_interval",
                                   !.interval = interval,
                                   !.ignore_speakers = ignore_speakers]
          /\ ret' = merge_by_silence_interval(src, interval, ignore_speakers)
    /\ pc' = "called"
    /\ UNCHANGED <<doc, src>>

\* transcript.map_speakers(speaker_map)
MapSpeakers ==
    /\ Callable
    /\ \E m \in SpeakerMaps :
          /\ call' = [NoCall EXCEPT !.name = "map_speakers", !.speaker_map = m]
          /\ ret' = map_speakers(src, m)
    /\ pc' = "called"
    /\ UNCHANGED <<doc, src>>

\* transcript.alternate_speakers(speaker_names)
AlternateSpeakers ==
    /\ Callable
    /\ \E names \in NameLists :
          /\ call' = [NoCall EXCEPT !.name = "alternate_speakers", !.names = names]
          /\ ret' = alternate_speakers(src, names)
    /\ pc' = "called"
    /\ UNCHANGED <<doc, src>>

\* the statistics accessors
TotalTime ==
    /\ Callable
    /\ call' = [NoCall EXCEPT !.name = "total_time"]
    /\ ret' = total_time(src)
    /\ pc' = "called"
    /\ UNCHANGED <<doc, src>>

TotalSpeakingTime ==
    /\ Callable
    /\ call' = [NoCall EXCEPT !.name = "total_speaking_time"]
    /\ ret' = total_speaking_time(src)
    /\ pc' = "called"
    /\ UNCHANGED <<doc, src>>

TotalSilence ==
    /\ Callable
    /\ call' = [NoCall EXCEPT !.name = "total_silence"]
    /\ ret' = total_silence(src)
    /\ pc' = "called"
    /\ UNCHANGED <<doc, src>>

AvgSilence ==
    /\ Callable
    /\ call' = [NoCall EXCEPT !.name = "avg_silence"]
    /\ ret' = avg_silence(src)
    /\ pc' = "called"
    /\ UNCHANGED <<doc, src>>

MedianSilence ==
    /\ Callable
    /\ call' = [NoCall EXCEPT !.name = "median_silence"]
    /\ ret' = median_silence(src)
    /\ pc' = "called"
    /\ UNCHANGED <<doc, src>>

AvgSpeakingTime ==
    /\ Callable
    /\ call' = [NoCall EXCEPT !.name = "avg_speaking_time"]
    /\ ret' = avg_speaking_time(src)
    /\ pc' = "called"
    /\ UNCHANGED <<doc, src>>

MedianSpeakingTime ==
    /\ Callable
    /\ call' = [NoCall EXCEPT !.name = "median_speaking_time"]
    /\ ret' = median_speaking_time(src)
    /\ pc' = "called"
    /\ UNCHANGED <<doc, src>>

StdSilence ==
    /\ Callable
    /\ call' = [NoCall EXCEPT !.name = "std_silence"]
    /\ ret' = std_silence(src)
    /\ pc' = "called"
    /\ UNCHANGED <<doc, src>>

\* str(transcript)
Str ==
    /\ Callable
    /\ call' = [NoCall EXCEPT !.name = "__str__"]
    /\ ret' = transcript_str(src)
    /\ pc' = "called"
    /\ UNCHANGED <<doc, src>>

\* parse_transcript on a file holding the text str() has just returned
Reparse ==
    /\ pc = "called"
    /\ call.name = "__str__"
    /\ ret.exc = "none"
    /\ call' = [NoCall EXCEPT !.name = "reparse", !.text = ret.text]
    /\ ret' = parse_transcript(ret.text)
    /\ UNCHANGED <<doc, src, pc>>

Next ==
    \/ AddItem
    \/ ParseTranscript
    \/ Merge
    \/ MergeBySpeaker
    \/ MergeBySilenceInterval
    \/ MapSpeakers
    \/ AlternateSpeakers
    \/ TotalTime
    \/ TotalSpeakingTime
    \/ TotalSilence
    \/ AvgSilence
    \/ MedianSilence
    \/ AvgSpeakingTime
    \/ MedianSpeakingTime
    \/ StdSilence
    \/ Str
    \/ Reparse

Spec == Init /\ [][Next]_vars

\* ================================================================ properties
RECURSIVE SumSeq(_)
SumSeq(s) == IF s = <<>> THEN 0 ELSE Head(s) + SumSeq(Tail(s))

RECURSIVE SumDurations(_)
SumDurations(lines) ==
    IF lines = <<>> THEN 0
    ELSE (Head(lines).end_time - Head(lines).start_time) + SumDurations(Tail(lines))

AggregatesAgree(t) ==
    LET n == Len(t.lines)
    IN  /\ Len(t.silence_intervals) = (IF n = 0 THEN 0 ELSE n - 1)
        /\ \A i \in 1..(n - 1) :
              t.silence_intervals[i] = t.lines[i + 1].start_time - t.lines[i].end_time
        /\ t.total_silence = SumSeq(t.silence_intervals)
        /\ t.total_speaking_time = SumDurations(t.lines)
        /\ t.speakers = { t.lines[i].speaker : i \in 1..n }

Returned == ret.exc = "none" /\ ret.kind = "transcript"

\* C1: after any sequence of appends (direct ones, and those made by
\* parse_transcript, map_speakers, alternate_speakers and merge) the derived
\* aggregates agree with the line list: one gap per adjacent pair of lines, each
\* gap the next start minus the previous end, total_silence their sum,
\* total_speaking_time the sum of the durations, speakers the set of the labels.
C1_AggregatesAgree ==
    /\ AggregatesAgree(src)
    /\ Returned => AggregatesAgree(ret.transcript)

\* C1 case: a three line, two speaker transcript merged down to two lines
C1_Witness ==
    /\ Len(src.lines) >= 3
    /\ Cardinality(src.speakers) = 2
    /\ call.name = "merge"
    /\ Returned
    /\ Len(ret.transcript.lines) = 2

\* the predicate the merge by silence is described to use
RECURSIVE C2_Expected(_, _, _, _, _)
C2_Expected(done, acc, rest, interval, ignore_speakers) ==
    IF rest = <<>> THEN Append(done, acc)
    ELSE LET nxt == Head(rest)
             both == /\ nxt.start_time - acc.end_time >= interval
                     /\ (ignore_speakers \/ acc.speaker = nxt.speaker)
         IN  IF both
             THEN C2_Expected(done,
                              [start_time |-> acc.start_time, end_time |-> nxt.end_time,
                               speaker |-> acc.speaker,
                               text |-> acc.text \o <<" ">> \o nxt.text],
                              Tail(rest), interval, ignore_speakers)
             ELSE C2_Expected(Append(done, acc), nxt, Tail(rest), interval, ignore_speakers)

\* C2: merge_by_silence_interval(interval, ignore_speakers) merges the
\* accumulator with the next line exactly when the gap between them is at least
\* interval and, unless ignore_speakers is set, the two have the same speaker.
\* An omitted interval stands for the median gap, which two lines define.
C2_MergesOnGapAndSpeaker ==
    (/\ call.name = "merge_by_silence_interval"
     /\ src.lines # <<>>
     /\ (call.interval # <<>> \/ Len(src.lines) >= 2))
    => /\ Returned
       /\ ret.transcript.lines =
              C2_Expected(<<>>, Head(src.lines), Tail(src.lines),
                          IF call.interval # <<>> THEN call.interval[1]
                          ELSE median_silence(src).value.ms,
                          call.ignore_speakers)

\* C3: for every document parse_transcript accepts, with or without the header
\* block, parsing the str() of the resulting transcript succeeds and yields a
\* transcript with the same lines.
C3_RoundTrip ==
    (call.name = "reparse" /\ doc # <<>>)
    => /\ Returned
       /\ Len(ret.transcript.lines) = Len(src.lines)
       /\ \A i \in 1..Len(src.lines) : ret.transcript.lines[i] = src.lines[i]

\* C4: for every non-empty transcript and every predicate, merge returns a
\* non-empty transcript that starts where the first line of the original starts
\* and ends where its last line ends.
C4_MergeKeepsSpan ==
    (call.name = "merge" /\ src.lines # <<>>)
    => /\ Returned
       /\ ret.transcript.lines # <<>>
       /\ ret.transcript.lines[1].start_time = src.lines[1].start_time
       /\ ret.transcript.lines[Len(ret.transcript.lines)].end_time
              = src.lines[Len(src.lines)].end_time

\* C4 case: three lines of which a scripted predicate merges the last two
C4_Witness ==
    /\ call.name = "merge"
    /\ call.pred = <<script_pred(<<FALSE, TRUE>>)>>
    /\ Len(src.lines) = 3
    /\ src.lines[3].end_time # src.lines[2].end_time
    /\ Returned
    /\ Len(ret.transcript.lines) = 2

AlwaysFalse(p) ==
    \/ p.kind = "always_false"
    \/ p.kind = "script" /\ \A k \in 1..Len(p.script) : ~p.script[k]

\* C5: for every non-empty transcript, merge with a predicate that is false for
\* every pair returns the same lines in the same order.
C5_MergeNeverIsIdentity ==
    (call.name = "merge" /\ AlwaysFalse(call.pred[1]) /\ src.lines # <<>>)
    => /\ Returned
       /\ Len(ret.transcript.lines) = Len(src.lines)
       /\ \A i \in 1..Len(src.lines) :
             /\ ret.transcript.lines[i].start_time = src.lines[i].start_time
             /\ ret.transcript.lines[i].end_time = src.lines[i].end_time
             /\ ret.transcript.lines[i].speaker = src.lines[i].speaker
             /\ ret.transcript.lines[i].text = src.lines[i].text

\* C5 case: three lines of one speaker with no gap, left as three lines
C5_Witness ==
    /\ call.name = "merge"
    /\ call.pred[1].kind = "always_false"
    /\ Len(src.lines) = 3
    /\ Cardinality(src.speakers) = 1
    /\ Returned
    /\ Len(ret.transcript.lines) = 3

StatNames ==
    {"total_time", "total_speaking_time", "total_silence", "avg_speaking_time",
     "median_speaking_time", "avg_silence", "median_silence", "std_silence"}

\* C6: on a transcript with zero lines every statistics accessor fails with an
\* error instead of returning a value.
C6_EmptyStatisticsFail ==
    (call.name \in StatNames /\ src.lines = <<>>) => ret.exc # "none"

\* the number of gaps below v, and the number of gaps not above it
Below(gaps, v) == Cardinality({ i \in 1..Len(gaps) : gaps[i] < v })
NotAbove(gaps, v) == Cardinality({ i \in 1..Len(gaps) : gaps[i] <= v })

\* v is the gap at 0-based position k of the gaps in ascending order
AtRank(gaps, v, k) ==
    /\ \E i \in 1..Len(gaps) : gaps[i] = v
    /\ Below(gaps, v) <= k
    /\ NotAbove(gaps, v) >= k + 1

\* C7, as amended: on a transcript of at least two lines median_silence returns
\* the gap at 0-based position len // 2 of the gaps in ascending order: the
\* middle one of an odd number of gaps, the upper of the two middle ones of an
\* even number.
C7_MedianIsUpperMiddle ==
    (call.name = "median_silence" /\ Len(src.lines) >= 2)
    => /\ ret.exc = "none"
       /\ AtRank(src.silence_intervals, ret.value.ms, Len(src.silence_intervals) \div 2)

\* C7 as stated: the middle gap of an odd number, the lower of the two middle
\* ones of an even number.
C7_MedianIsLowerMiddle ==
    (call.name = "median_silence" /\ Len(src.lines) >= 2)
    => /\ ret.exc = "none"
       /\ AtRank(src.silence_intervals, ret.value.ms,
                 (Len(src.silence_intervals) - 1) \div 2)

\* C7 case: two different gaps, of which the larger is returned
C7_Witness ==
    /\ call.name = "median_silence"
    /\ Len(src.silence_intervals) = 2
    /\ src.silence_intervals[1] < src.silence_intervals[2]
    /\ ret.exc = "none"
    /\ ret.value.ms = src.silence_intervals[2]

\* the blocks of a document and the third line of a block
C8_Blocks(text) ==
    LET blocks == split(strip(text), BlockSep)
    IN  IF blocks[1] = Header THEN Tail(blocks) ELSE blocks

C8_Third(b) == split(b, NL)[3]

\* the index of the first occurrence of the separator in a line that has one
C8_FirstSeparator(third) ==
    CHOOSE k \in 1..Len(third) :
        /\ slice(third, k, k + 1) = Separator
        /\ \A j \in 1..(k - 1) : slice(third, j, j + 1) # Separator

\* C8: parse_line splits the third line of a block at the first occurrence of
\* the separator ": ": the speaker is what precedes it and the text is what
\* follows it, also when the line holds the separator more than once.
C8_SplitAtFirstSeparator ==
    (call.name = "parse_transcript" /\ ret.exc = "none")
    => \A i \in 1..Len(src.lines) :
          LET third == C8_Third(C8_Blocks(call.text)[i])
              k == C8_FirstSeparator(third)
          IN  /\ src.lines[i].speaker = slice(third, 1, k - 1)
              /\ src.lines[i].text = slice(third, k + 2, Len(third))

\* C9: alternate_speakers with an empty list of names fails and returns no
\* transcript, whatever the source transcript; with a non-empty list it returns a
\* transcript of the same length whose i-th line (from 0) has the speaker
\* names[i mod len(names)] and the start, end and text of the original.
C9_AlternateSpeakers ==
    call.name = "alternate_speakers"
    => IF call.names = <<>>
       THEN ret.exc # "none" /\ ret.kind # "transcript"
       ELSE /\ Returned
            /\ Len(ret.transcript.lines) = Len(src.lines)
            /\ \A i \in 1..Len(src.lines) :
                  /\ ret.transcript.lines[i].speaker
                         = call.names[((i - 1) % Len(call.names)) + 1]
                  /\ ret.transcript.lines[i].start_time = src.lines[i].start_time
                  /\ ret.transcript.lines[i].end_time = src.lines[i].end_time
                  /\ ret.transcript.lines[i].text = src.lines[i].text

SpanOf(t) == t.lines[Len(t.lines)].end_time - t.lines[1].start_time

\* C10: on every non-empty transcript total_speaking_time + total_silence is the
\* end of the last line minus the start of the first, gaps counted with their
\* sign; so merge, with any predicate, returns a transcript with the same sum.
C10_SpeakingPlusSilenceIsSpan ==
    /\ src.lines # <<>> => src.total_speaking_time + src.total_silence = SpanOf(src)
    /\ (Returned /\ ret.transcript.lines # <<>>)
       => ret.transcript.total_speaking_time + ret.transcript.total_silence
              = SpanOf(ret.transcript)
    /\ (call.name = "merge" /\ Returned)
       => ret.transcript.total_speaking_time + ret.transcript.total_silence
              = src.total_speaking_time + src.total_silence

\* C10 case: overlapping lines (negative silence), some of them merged
C10_Witness ==
    /\ call.name = "merge"
    /\ Returned
    /\ src.total_silence < 0
    /\ Len(src.lines) = 3
    /\ Len(ret.transcript.lines) = 2
    /\ ret.transcript.total_silence < 0
====
